---- MODULE Spec2Model ----
(***************************************************************************)
(* Model of pfctoolkit/mapping.py: the per-chunk computation               *)
(* (process_chunk and the compute_* kernels) and the merge of chunk        *)
(* contributions into a running atlas (consolidate).                       *)
(*                                                                         *)
(* Numbers are integers (floating-point rounding is not modelled).         *)
(* A numpy vector is an object on a heap: a record field that holds a      *)
(* vector holds its address, so that in-place addition (ndarray +=) and    *)
(* sharing of storage between records are visible.                         *)
(***************************************************************************)
EXTENDS Integers, Sequences, FiniteSets, TLC

\* ------------------------------------------------------------------ bounds
\* Configured chunk_size: rows of a chunk file, length of a chunk-local vector.
ChunkSize == 2
\* Configured brain_size: columns of a chunk file, length of a whole-brain vector.
BrainSize == 2
\* Largest nonzero ROI weight drawn for a voxel.
MaxWeight == 1
\* Seeds of the chunk data matrices drawn (0..MaxSeed).
MaxSeed == 2

\* ROI paths (keys of every contribution record and atlas).
Rois == {"a", "b"}

\* ------------------------------------------------------------ numeric kernels
RECURSIVE SumSeq(_)
SumSeq(s) == IF s = <<>> THEN 0 ELSE Head(s) + SumSeq(Tail(s))

\* Boolean-mask compaction  x[mask] : the entries of x at the True positions.
\* The operands have the same length wherever mapping.py indexes by a mask
\* (the shape check of lines 58-60 sees to it for chunk_data); the positions
\* that only one of them has select nothing.
RECURSIVE Compress(_, _)
Compress(x, mask) ==
  IF x = <<>> \/ mask = <<>> THEN <<>>
  ELSE IF Head(mask) THEN <<Head(x)>> \o Compress(Tail(x), Tail(mask))
       ELSE Compress(Tail(x), Tail(mask))

\* (weights != 0)
MaskOf(weights) == [j \in 1..Len(weights) |-> weights[j] # 0]

\* np.multiply(chunk_weights, norm_weight), np.multiply(chunk_weights, std_weight)
compute_chunk_masks(chunk_weights, norm_weight, std_weight) ==
  [norm |-> [i \in 1..Len(chunk_weights) |->
               [j \in 1..Len(chunk_weights[i]) |-> chunk_weights[i][j] * norm_weight[j]]],
   std  |-> [i \in 1..Len(chunk_weights) |->
               [j \in 1..Len(chunk_weights[i]) |-> chunk_weights[i][j] * std_weight[j]]]]

\* np.sum(std_chunk_masks, axis = 1)
compute_network_weights(std_chunk_masks) ==
  [i \in 1..Len(std_chunk_masks) |-> SumSeq(std_chunk_masks[i])]

\* np.matmul(std_chunk_masks, chunk_data)
compute_network_maps(std_chunk_masks, chunk_data) ==
  [i \in 1..Len(std_chunk_masks) |->
     [c \in 1..Len(chunk_data[1]) |->
        SumSeq([j \in 1..Len(chunk_data) |-> std_chunk_masks[i][j] * chunk_data[j][c]])]]

\* np.sum(norm_chunk_masks, axis = 1)
compute_numerator(norm_chunk_masks) ==
  [i \in 1..Len(norm_chunk_masks) |-> SumSeq(norm_chunk_masks[i])]

\* np.multiply(np.reshape(chunk_weights[i][chunk_masks[i]], (-1,1)),
\*             chunk_data[chunk_masks[i],:])
chunk_masked_rows(chunk_weights, chunk_masks, chunk_data, i) ==
  LET w    == Compress(chunk_weights[i], chunk_masks[i])
      rows == Compress(chunk_data, chunk_masks[i])
  IN  [r \in 1..Len(rows) |-> [c \in 1..Len(rows[r]) |-> w[r] * rows[r][c]]]

\* Mutant of brain_masked_rows: the columns are not restricted to the brain
\* mask but taken from the front of each row.
brain_masked_rows_front(brain_weights, brain_masks, chunk_masked, i) ==
  LET w == Compress(brain_weights[i], brain_masks[i])
  IN  [r \in 1..Len(chunk_masked) |->
         [c \in 1..Len(w) |-> w[c] * chunk_masked[r][c]]]

\* np.multiply(brain_weights[i][brain_masks[i]], chunk_masked[:,brain_masks[i]])
brain_masked_rows(brain_weights, brain_masks, chunk_masked, i) ==
  LET w == Compress(brain_weights[i], brain_masks[i])
  IN  [r \in 1..Len(chunk_masked) |->
         LET sel == Compress(chunk_masked[r], brain_masks[i])
         IN  [c \in 1..Len(w) |-> w[c] * sel[c]]]

compute_denominator(brain_weights, chunk_weights, brain_masks, chunk_masks, chunk_data, i) ==
  LET chunk_masked == chunk_masked_rows(chunk_weights, chunk_masks, chunk_data, i)
      brain_masked == brain_masked_rows(brain_weights, brain_masks, chunk_masked, i)
  IN  SumSeq([r \in 1..Len(brain_masked) |-> SumSeq(brain_masked[r])])

\* ------------------------------------------------------------ inputs drawn
\* A weight vector of length n: w on the voxels of support, 0 elsewhere
\* (the masking collaborator's projection of one ROI volume).
WeightVector(n, support, w) == [j \in 1..n |-> IF j \in support THEN w + j - 1 ELSE 0]

\* A chunk file's array of shape (rows, cols); entries in {-1, 0, 1}.
ChunkData(rows, cols, seed) ==
  [r \in 1..rows |-> [c \in 1..cols |-> ((seed + r + 2 * c) % 3) - 1]]

\* One ROI projected into both domains.
RoiProjections ==
  { [chunk |-> WeightVector(ChunkSize, sc, w), brain |-> WeightVector(BrainSize, sb, w)] :
      sc \in SUBSET (1..ChunkSize), sb \in SUBSET (1..BrainSize), w \in 1..MaxWeight }

\* ------------------------------------------------------------------ state
VARIABLES
  den_in,      \* compute_denominator: the arguments of the call under study
  den_out,     \* its result (NoResult before the call)
  den_perm,    \* the permutation applied to the batch for the second call
  den_out2,    \* the result on the permuted batch with the index adjusted
  \* process_chunk
  pc_in,          \* the arguments and the files of the call in progress
  pc_state,       \* "idle", "loop" (in the chunk_type loop), "done", "raised"
  pc_idx,         \* position in the chunk_type loop, 1..4
  pc_masks,       \* norm_chunk_masks, std_chunk_masks
  contributions,  \* the dict being built, and returned when pc_state = "done"
  pc_calls,       \* the compute_* kernels called so far in this call, in order
  pc_err,         \* the exception raised by this call
  pc_prev,        \* the shape failure of an earlier call: expected, actual, message
  \* consolidate, called serially by an orchestrator
  heap,           \* the numpy vectors: address -> vector
  contribs,       \* the contribution records process_chunk has returned, by chunk
  orig,           \* the values each contribution held when it was returned
  atlas,          \* the atlases (dicts) the orchestrator keeps
  last,           \* the last consolidate call: arguments, outcome, atlas before it
  hist,           \* what was consolidated where: uses, merged, retired, tainted
  \* two consolidate calls running concurrently on one atlas
  r_recs,         \* the per-ROI record objects (inner dicts) of the shared atlas
  r_atlas,        \* the shared atlas: ROI -> record object
  thr,            \* each call's position and temporaries
  r_overlap       \* whether the two calls were ever in progress at the same time

denVars == <<den_in, den_out, den_perm, den_out2>>
chunkVars == <<pc_in, pc_state, pc_idx, pc_masks, contributions, pc_calls, pc_err, pc_prev>>
consVars == <<heap, contribs, orig, atlas, last, hist>>
raceVars == <<r_recs, r_atlas, thr, r_overlap>>
vars == <<denVars, chunkVars, consVars, raceVars>>

Idle(v) == v = <<>>
DenIdle == Idle(den_in) /\ Idle(den_out) /\ Idle(den_perm) /\ Idle(den_out2)
ChunkIdle ==
  /\ Idle(pc_in) /\ Idle(pc_state) /\ Idle(pc_idx) /\ Idle(pc_masks)
  /\ Idle(contributions) /\ Idle(pc_calls) /\ Idle(pc_err) /\ Idle(pc_prev)
RaceIdle == Idle(r_recs) /\ Idle(r_atlas) /\ Idle(thr) /\ Idle(r_overlap)
ConsIdle ==
  /\ Idle(heap) /\ Idle(contribs) /\ Idle(orig) /\ Idle(atlas) /\ Idle(last) /\ Idle(hist)

\* ---------------------------------------------- compute_denominator alone
BatchOrders(n) == { p \in [1..n -> 1..n] : \A a, b \in 1..n : p[a] = p[b] => a = b }

BatchSize == Cardinality(Rois)

NoResult == [done |-> FALSE, value |-> 0]
Result(v) == [done |-> TRUE, value |-> v]
Identity(n) == [k \in 1..n |-> k]

DenInit ==
  /\ den_in \in { [brain_weights |-> [k \in 1..BatchSize |-> b[k].brain],
                   chunk_weights |-> [k \in 1..BatchSize |-> b[k].chunk],
                   chunk_data    |-> ChunkData(ChunkSize, BrainSize, d),
                   i             |-> i] :
                  b \in [1..BatchSize -> RoiProjections], d \in 0..MaxSeed,
                  i \in 1..BatchSize }
  /\ den_out = NoResult
  /\ den_perm = Identity(BatchSize)
  /\ den_out2 = NoResult
  /\ ChunkIdle
  /\ ConsIdle
  /\ RaceIdle

\* The call as process_chunk makes it (lines 39-40, 65-67): masks are (weights != 0).
DenominatorOf(bw, cw, data, i) ==
  compute_denominator(bw, cw,
                      [k \in 1..Len(bw) |-> MaskOf(bw[k])],
                      [k \in 1..Len(cw) |-> MaskOf(cw[k])],
                      data, i)

CallDenominator ==
  /\ ~den_out.done
  /\ den_out' = Result(DenominatorOf(den_in.brain_weights, den_in.chunk_weights,
                                     den_in.chunk_data, den_in.i))
  /\ UNCHANGED <<den_in, den_perm, den_out2, chunkVars, consVars, raceVars>>

\* The same call on the batch reordered by p: new row k is old row p[k], and
\* the index passed is the new position of old row i.
CallDenominatorPermuted ==
  /\ ~den_out2.done
  /\ \E p \in BatchOrders(BatchSize) :
       LET bw == [k \in 1..BatchSize |-> den_in.brain_weights[p[k]]]
           cw == [k \in 1..BatchSize |-> den_in.chunk_weights[p[k]]]
           i2 == CHOOSE k \in 1..BatchSize : p[k] = den_in.i
       IN  /\ den_perm' = p
           /\ den_out2' = Result(DenominatorOf(bw, cw, den_in.chunk_data, i2))
  /\ UNCHANGED <<den_in, den_out, chunkVars, consVars, raceVars>>

DenNext == CallDenominator \/ CallDenominatorPermuted

SpecDenominator == DenInit /\ [][DenNext]_vars

RECURSIVE SumOver(_, _)
SumOver(S, f) ==
  IF S = {} THEN 0
  ELSE LET x == CHOOSE y \in S : TRUE IN f[x] + SumOver(S \ {x}, f)

DenominatorFormula(bw, cw, data, i) ==
  LET R == { r \in 1..Len(cw[i]) : cw[i][r] # 0 }
      C == { c \in 1..Len(bw[i]) : bw[i][c] # 0 }
  IN  SumOver(R \X C, [rc \in R \X C |-> cw[i][rc[1]] * data[rc[1]][rc[2]] * bw[i][rc[2]]])

\* C7: compute_denominator for ROI index i is the sum over chunk rows r with
\* chunk_weights[i][r] # 0 and brain columns c with brain_weights[i][c] # 0 of
\* chunk_weights[i][r] * chunk_data[r][c] * brain_weights[i][c]; and the call on a
\* permuted batch with the index adjusted returns the same number.
C7_DenominatorIsMaskedSum ==
  /\ den_out.done =>
       den_out.value = DenominatorFormula(den_in.brain_weights, den_in.chunk_weights,
                                          den_in.chunk_data, den_in.i)
  /\ (den_out.done /\ den_out2.done) => den_out.value = den_out2.value

C7_Witness ==
  /\ den_out.done /\ den_out2.done
  /\ den_out.value # 0
  /\ den_perm # Identity(BatchSize)
  /\ \E r \in 1..ChunkSize : den_in.chunk_weights[den_in.i][r] = 0
  /\ \E c \in 1..BrainSize : den_in.brain_weights[den_in.i][c] = 0
  /\ den_in.brain_weights[1] # den_in.brain_weights[2]

\* ------------------------------------------------------------ process_chunk
\* A Python dict: its keys in insertion order, and the value of each key.
EmptyDict == [keys |-> <<>>, rec |-> <<>>]
DictHas(d, k) == k \in DOMAIN d.rec
\* d[k] = v
DictSet(d, k, v) ==
  [keys |-> IF DictHas(d, k) THEN d.keys ELSE Append(d.keys, k),
   rec  |-> [x \in (DOMAIN d.rec) \cup {k} |-> IF x = k THEN v ELSE d.rec[x]]]
\* r[f] = v on the inner record of one ROI
RecSet(r, f, v) == [x \in (DOMAIN r) \cup {f} |-> IF x = f THEN v ELSE r[x]]

\* The six fields of a complete record, in the order consolidate reads them.
FieldOrder == <<"avgr", "fz", "t", "network_weight", "numerator", "denominator">>
Fields == { FieldOrder[n] : n \in DOMAIN FieldOrder }
VectorFields == {"avgr", "fz", "t"}

\* The chunk_type loop's list (lines 48-52).
ChunkTypes == <<"avgr", "fz", "t", "combo">>

\* Mutant of ShapeMatches: only the number of rows is compared.
ShapeMatches_rows_only(actual, expected) == actual[1] = expected[1]

\* chunk_data.shape != (config.get("chunk_size"), config.get("brain_size")), negated
ShapeMatches(actual, expected) == actual = expected

\* The TypeError's message (line 60): the literal has no f prefix, so the braces
\* are not interpolated and the text is the same for every pair of shapes.
ShapeErrorMessage(expected, actual) ==
  "Chunk expected to have shape {(config.get('chunk_size'), config.get('brain_size'))} but instead has shape {np.shape(chunk_data)}!"

NoError == [type |-> "none", message |-> ""]

\* contributions[roi][field] = v : KeyError when roi has no record yet.
SetItemField(d, roi, field, v) ==
  IF DictHas(d, roi)
  THEN [dict |-> DictSet(d, roi, RecSet(d.rec[roi], field, v)), ok |-> TRUE]
  ELSE [dict |-> d, ok |-> FALSE]

\* Mutant of StoreMap: every statistic allocates the record anew.
StoreMap_alloc_always(d, roi, stat, v) ==
  [dict |-> DictSet(d, roi, [f \in {stat} |-> v]), ok |-> TRUE]

\* Lines 78-83: avgr allocates the ROI's record, fz and t store into it.
StoreMap(d, roi, stat, v) ==
  IF stat = "avgr"
  THEN [dict |-> DictSet(d, roi, [f \in {stat} |-> v]), ok |-> TRUE]
  ELSE SetItemField(d, roi, stat, v)

\* for i, roi in enumerate(rois): store network_maps[i,:]   (lines 77-83)
RECURSIVE StoreMaps(_, _, _, _, _)
StoreMaps(d, rois, stat, maps, i) ==
  IF i > Len(rois) THEN [dict |-> d, ok |-> TRUE]
  ELSE LET r == StoreMap(d, rois[i], stat, maps[i])
       IN  IF r.ok THEN StoreMaps(r.dict, rois, stat, maps, i + 1) ELSE r

\* for i, roi in enumerate(rois): numerator and denominator   (lines 64-69)
RECURSIVE StoreCombo(_, _, _, _, _)
StoreCombo(d, rois, numerator, denominators, i) ==
  IF i > Len(rois) THEN [dict |-> d, ok |-> TRUE]
  ELSE LET r1 == SetItemField(d, rois[i], "numerator", numerator[i])
           r2 == SetItemField(r1.dict, rois[i], "denominator", denominators[i])
       IN  IF r1.ok /\ r2.ok
           THEN StoreCombo(r2.dict, rois, numerator, denominators, i + 1)
           ELSE [dict |-> d, ok |-> FALSE]

\* for i, roi in enumerate(rois): network_weight   (lines 85-86)
RECURSIVE StoreWeights(_, _, _, _)
StoreWeights(d, rois, weights, i) ==
  IF i > Len(rois) THEN [dict |-> d, ok |-> TRUE]
  ELSE LET r == SetItemField(d, rois[i], "network_weight", weights[i])
       IN  IF r.ok THEN StoreWeights(r.dict, rois, weights, i + 1) ELSE r

Expected == <<ChunkSize, BrainSize>>
\* Shapes a chunk file on disk may have: the configured one and two others.
FileShapes == {Expected, <<ChunkSize, BrainSize + 1>>, <<ChunkSize + 1, BrainSize>>}

RoiSet(rois) == { rois[i] : i \in 1..Len(rois) }

\* ROI batches: non-empty sequences of ROI paths, a path possibly repeated.
RoiBatches == UNION { [1..n -> Rois] : n \in 1..Cardinality(Rois) }

\* The projections the masking collaborator returns for the ROIs of a call:
\* each ROI covers either the whole domain or its first voxel only.
BatchProjections ==
  [Rois -> { [chunk |-> WeightVector(ChunkSize, sc, 1), brain |-> WeightVector(BrainSize, sb, 1)] :
               sc \in {1..ChunkSize, {1}}, sb \in {1..BrainSize} }]

ChunkInputs ==
  { [rois   |-> rois,
     brain_weights |-> [i \in 1..Len(rois) |-> proj[rois[i]].brain],
     chunk_weights |-> [i \in 1..Len(rois) |-> proj[rois[i]].chunk],
     norm_weight   |-> [j \in 1..ChunkSize |-> j],
     std_weight    |-> [j \in 1..ChunkSize |-> j + 1],
     files  |-> [n \in 1..Len(ChunkTypes) |->
                   [shape |-> shapes[n],
                    data  |-> ChunkData(shapes[n][1], shapes[n][2], seed + n)]]] :
    rois \in RoiBatches, proj \in BatchProjections,
    shapes \in [1..Len(ChunkTypes) -> FileShapes], seed \in 0..MaxSeed }

NoFailure == [seen |-> FALSE, expected |-> <<0, 0>>, actual |-> <<0, 0>>, message |-> ""]

ChunkInit ==
  /\ pc_in = <<>>
  /\ pc_state = "idle"
  /\ pc_idx = 1
  /\ pc_masks = <<>>
  /\ contributions = EmptyDict
  /\ pc_calls = <<>>
  /\ pc_err = NoError
  /\ pc_prev = NoFailure
  /\ DenIdle
  /\ ConsIdle
  /\ RaceIdle

\* The orchestrator calls process_chunk(chunk, rois, config).
Invoke ==
  /\ pc_state = "idle"
  /\ pc_in' \in ChunkInputs
  /\ pc_state' = "begin"
  /\ UNCHANGED <<pc_idx, pc_masks, contributions, pc_calls, pc_err, pc_prev, denVars, consVars, raceVars>>

\* The call is over: its frame is dropped and the orchestrator, which caught a
\* shape failure, keeps what it was about.
Return ==
  /\ pc_state \in {"done", "raised"}
  /\ pc_prev' = IF pc_state = "raised" /\ pc_err.type = "TypeError"
                THEN [seen |-> TRUE, expected |-> Expected,
                      actual |-> pc_in.files[pc_idx].shape, message |-> pc_err.message]
                ELSE pc_prev
  /\ pc_in' = <<>>
  /\ pc_state' = "idle"
  /\ pc_idx' = 1
  /\ pc_masks' = <<>>
  /\ contributions' = EmptyDict
  /\ pc_calls' = <<>>
  /\ pc_err' = NoError
  /\ UNCHANGED <<denVars, consVars, raceVars>>

\* Lines 28-47: projections, masks, compute_chunk_masks, contributions = {}.
Begin ==
  /\ pc_state = "begin"
  /\ pc_masks' = compute_chunk_masks(pc_in.chunk_weights, pc_in.norm_weight, pc_in.std_weight)
  /\ pc_calls' = Append(pc_calls, "compute_chunk_masks")
  /\ contributions' = EmptyDict
  /\ pc_state' = "loop"
  /\ UNCHANGED <<pc_in, pc_idx, pc_err, pc_prev, denVars, consVars, raceVars>>

Repeat(x, n) == [k \in 1..n |-> x]

\* One iteration of the chunk_type loop (lines 53-83): load, check the shape,
\* compute and store.
LoadChunk ==
  /\ pc_state = "loop"
  /\ pc_idx <= Len(ChunkTypes)
  /\ LET stat == ChunkTypes[pc_idx]
         file == pc_in.files[pc_idx]
         rois == pc_in.rois
         raise(type, msg) ==
           /\ pc_state' = "raised"
           /\ pc_err' = [type |-> type, message |-> msg]
           /\ UNCHANGED <<pc_idx, contributions, pc_calls>>
     IN
     IF ~ShapeMatches(file.shape, Expected)
     THEN raise("TypeError", ShapeErrorMessage(Expected, file.shape))
     ELSE IF stat = "combo"
     THEN LET numerator == compute_numerator(pc_masks.norm)
              denominators ==
                [i \in 1..Len(rois) |->
                   compute_denominator(pc_in.brain_weights, pc_in.chunk_weights,
                                       [k \in 1..Len(rois) |-> MaskOf(pc_in.brain_weights[k])],
                                       [k \in 1..Len(rois) |-> MaskOf(pc_in.chunk_weights[k])],
                                       file.data, i)]
              r == StoreCombo(contributions, rois, numerator, denominators, 1)
          IN  IF r.ok
              THEN /\ contributions' = r.dict
                   /\ pc_calls' = pc_calls \o <<"compute_numerator">>
                                   \o Repeat("compute_denominator", Len(rois))
                   /\ pc_idx' = pc_idx + 1
                   /\ UNCHANGED <<pc_state, pc_err>>
              ELSE raise("KeyError", "")
     ELSE LET network_maps == compute_network_maps(pc_masks.std, file.data)
              r == StoreMaps(contributions, rois, stat, network_maps, 1)
          IN  IF r.ok
              THEN /\ contributions' = r.dict
                   /\ pc_calls' = Append(pc_calls, "compute_network_maps")
                   /\ pc_idx' = pc_idx + 1
                   /\ UNCHANGED <<pc_state, pc_err>>
              ELSE raise("KeyError", "")
  /\ UNCHANGED <<pc_in, pc_masks, pc_prev, denVars, consVars, raceVars>>

\* Lines 84-87: network weights, then return contributions.
Finish ==
  /\ pc_state = "loop"
  /\ pc_idx > Len(ChunkTypes)
  /\ LET network_weights == compute_network_weights(pc_masks.std)
         r == StoreWeights(contributions, pc_in.rois, network_weights, 1)
     IN  /\ pc_calls' = Append(pc_calls, "compute_network_weights")
         /\ IF r.ok
            THEN /\ contributions' = r.dict
                 /\ pc_state' = "done"
                 /\ UNCHANGED pc_err
            ELSE /\ pc_state' = "raised"
                 /\ pc_err' = [type |-> "KeyError", message |-> ""]
                 /\ UNCHANGED contributions
  /\ UNCHANGED <<pc_in, pc_idx, pc_masks, pc_prev, denVars, consVars, raceVars>>

ChunkNext == Invoke \/ Begin \/ LoadChunk \/ Finish \/ Return

SpecChunk == ChunkInit /\ [][ChunkNext]_vars

InCall == pc_state \in {"begin", "loop", "done", "raised"}
\* The first statistic whose file does not have the configured shape (0: none).
FirstMismatch ==
  IF \A n \in 1..Len(ChunkTypes) : pc_in.files[n].shape = Expected THEN 0
  ELSE CHOOSE n \in 1..Len(ChunkTypes) :
         /\ pc_in.files[n].shape # Expected
         /\ \A m \in 1..(n - 1) : pc_in.files[m].shape = Expected

\* C3 as stated: when a statistic file has the wrong shape, process_chunk fails
\* and, at the moment of the failure, no compute_* kernel at all has been called
\* in that call.
C3_NoKernelBeforeShapeFailure ==
  (InCall /\ pc_state = "raised" /\ pc_err.type = "TypeError") => pc_calls = <<>>

\* C3 amended: a file of the wrong shape makes process_chunk raise when that
\* file is loaded, and no contribution is returned; no kernel is applied to the
\* mismatching file, and compute_numerator, compute_denominator and
\* compute_network_weights have not been called; but compute_chunk_masks has
\* been called, and compute_network_maps once per correctly shaped file that
\* precedes the mismatching one.
C3_ShapeFailureStopsAtThatFile ==
  InCall =>
    /\ pc_state = "done" => FirstMismatch = 0
    /\ pc_state = "loop" =>
         \A n \in 1..(pc_idx - 1) : pc_in.files[n].shape = Expected
    /\ (pc_state = "loop" /\ pc_idx <= Len(ChunkTypes)
          /\ pc_in.files[pc_idx].shape # Expected) =>
         /\ pc_calls = <<"compute_chunk_masks">> \o Repeat("compute_network_maps", pc_idx - 1)
    /\ pc_state = "raised" =>
         /\ pc_err.type = "TypeError"
         /\ pc_idx = FirstMismatch
         /\ pc_calls = <<"compute_chunk_masks">>
                         \o Repeat("compute_network_maps", FirstMismatch - 1)
         /\ pc_idx = 1 => contributions = EmptyDict

C3_Witness ==
  /\ pc_state = "raised"
  /\ pc_err.type = "TypeError"
  /\ pc_idx = 3
  /\ pc_in.files[3].shape = <<ChunkSize, BrainSize + 1>>
  /\ Len(pc_in.rois) = 2

\* C4: the shape-mismatch error identifies the expected and the actual shape:
\* two failures that differ in the expected or in the actual shape carry
\* different error values.
C4_ShapeErrorIdentifiesShapes ==
  (InCall /\ pc_state = "raised" /\ pc_err.type = "TypeError" /\ pc_prev.seen
     /\ <<pc_prev.expected, pc_prev.actual>> # <<Expected, pc_in.files[pc_idx].shape>>)
  => pc_err.message # pc_prev.message

\* C5: every assignment after the avgr pass finds the ROI's record (no KeyError);
\* from the avgr pass on every ROI of the batch has a record holding avgr, at
\* combo time it holds avgr, fz and t, and the contribution returned maps exactly
\* the ROIs of the batch to records of exactly the six fields.
C5_RecordsAllocatedByAvgr ==
  InCall =>
    /\ pc_err.type # "KeyError"
    /\ (pc_state = "loop" /\ pc_idx >= 2) =>
         /\ DOMAIN contributions.rec = RoiSet(pc_in.rois)
         /\ \A roi \in RoiSet(pc_in.rois) :
              /\ "avgr" \in DOMAIN contributions.rec[roi]
              /\ pc_idx >= 4 => {"avgr", "fz", "t"} \subseteq DOMAIN contributions.rec[roi]
    /\ pc_state = "done" =>
         /\ DOMAIN contributions.rec = RoiSet(pc_in.rois)
         /\ RoiSet(contributions.keys) = RoiSet(pc_in.rois)
         /\ \A roi \in RoiSet(pc_in.rois) : DOMAIN contributions.rec[roi] = Fields

C5_Witness ==
  /\ pc_state = "done"
  /\ pc_in.rois = <<"b", "a">>
  /\ contributions.keys = <<"b", "a">>
  /\ \A roi \in Rois : DOMAIN contributions.rec[roi] = Fields

\* -------------------------------------------------------------- consolidate
\* Chunks whose contributions the orchestrator collects.
MaxChunks == 2
\* Atlases the orchestrator keeps: a shared one and one for a group of chunks.
Atlases == {1, 2}
\* consolidate calls in one run.
MaxCalls == 3
\* The same two bounds for the runs in which a contribution breaks the contract.
MaxFailChunks == 1
MaxFailCalls == 3

VecAdd(x, y) == [j \in 1..Len(x) |-> x[j] + y[j]]

\* Mutant of AddInPlace: the sum replaces nothing, the operand overwrites.
AddInPlace_overwrite(h, dst, src) == [h EXCEPT ![dst] = h[src]]

\* ndarray.__iadd__ : atlas[roi][f] += contribution[roi][f] on two vectors adds
\* into the storage of the left operand, which stays the same object.
AddInPlace(h, dst, src) == [h EXCEPT ![dst] = VecAdd(h[dst], h[src])]

\* Mutant of MergeFields: a missing field is skipped instead of raising.
RECURSIVE MergeFields_skip_missing(_, _, _, _)
MergeFields_skip_missing(arec, crec, h, q) ==
  IF q > Len(FieldOrder) THEN [rec |-> arec, heap |-> h, ok |-> TRUE, field |-> 0]
  ELSE LET f == FieldOrder[q]
       IN  IF f \notin DOMAIN arec \/ f \notin DOMAIN crec
           THEN MergeFields_skip_missing(arec, crec, h, q + 1)
           ELSE IF f \in VectorFields
           THEN MergeFields_skip_missing(arec, crec, AddInPlace(h, arec[f], crec[f]), q + 1)
           ELSE MergeFields_skip_missing([arec EXCEPT ![f] = arec[f] + crec[f]], crec, h, q + 1)

\* Mutant of MergeFields: a record whose vectors are already the atlas entry's
\* vectors is taken for merged and skipped.
MergeFields_dedup(arec, crec, h, q) ==
  IF \A f \in VectorFields : f \in DOMAIN arec /\ f \in DOMAIN crec /\ arec[f] = crec[f]
  THEN [rec |-> arec, heap |-> h, ok |-> TRUE, field |-> 0]
  ELSE MergeFields_skip_missing(arec, crec, h, q)

\* Lines 227-232: the six augmented assignments, in order; the first field
\* missing from either record raises KeyError and leaves the earlier ones added.
RECURSIVE MergeFields(_, _, _, _)
MergeFields(arec, crec, h, q) ==
  IF q > Len(FieldOrder) THEN [rec |-> arec, heap |-> h, ok |-> TRUE, field |-> 0]
  ELSE LET f == FieldOrder[q]
       IN  IF f \notin DOMAIN arec \/ f \notin DOMAIN crec
           THEN [rec |-> arec, heap |-> h, ok |-> FALSE, field |-> q]
           ELSE IF f \in VectorFields
           THEN MergeFields(arec, crec, AddInPlace(h, arec[f], crec[f]), q + 1)
           ELSE MergeFields([arec EXCEPT ![f] = arec[f] + crec[f]], crec, h, q + 1)

\* Lines 234-241: the dict display reads the six fields in order (KeyError on
\* the first one missing, before anything is stored) and holds the very
\* objects read: a vector field of the new record is the contribution's vector.
NewRecord(crec) ==
  IF \E f \in Fields : f \notin DOMAIN crec
  THEN [rec |-> <<>>, ok |-> FALSE,
        field |-> CHOOSE q \in 1..Len(FieldOrder) :
                    /\ FieldOrder[q] \notin DOMAIN crec
                    /\ \A n \in 1..(q - 1) : FieldOrder[n] \in DOMAIN crec]
  ELSE [rec |-> [f \in Fields |-> crec[f]], ok |-> TRUE, field |-> 0]

\* for roi in contribution.keys(): ... from position p on.
RECURSIVE ConsolidateFrom(_, _, _, _)
ConsolidateFrom(contribution, a, h, p) ==
  IF p > Len(contribution.keys)
  THEN [atlas |-> a, heap |-> h, ok |-> TRUE, pos |-> 0, field |-> 0]
  ELSE LET roi == contribution.keys[p]
       IN  IF DictHas(a, roi)
           THEN LET m == MergeFields(a.rec[roi], contribution.rec[roi], h, 1)
                IN  IF m.ok
                    THEN ConsolidateFrom(contribution, DictSet(a, roi, m.rec), m.heap, p + 1)
                    ELSE [atlas |-> DictSet(a, roi, m.rec), heap |-> m.heap,
                          ok |-> FALSE, pos |-> p, field |-> m.field]
           ELSE LET n == NewRecord(contribution.rec[roi])
                IN  IF n.ok
                    THEN ConsolidateFrom(contribution, DictSet(a, roi, n.rec), h, p + 1)
                    ELSE [atlas |-> a, heap |-> h, ok |-> FALSE, pos |-> p, field |-> n.field]

\* Mutant of consolidate: a call that fails leaves no trace.
consolidate_all_or_nothing(contribution, a, h) ==
  LET r == ConsolidateFrom(contribution, a, h, 1)
  IN  IF r.ok THEN r ELSE [r EXCEPT !.atlas = a, !.heap = h]

\* consolidate(contribution, atlas): the atlas and the heap after the call, and
\* whether it returned (ok) or raised KeyError at ROI position pos, field index
\* field of FieldOrder.
consolidate(contribution, a, h) == ConsolidateFrom(contribution, a, h, 1)

\* What a record holds, vectors read through the heap.
ViewRec(rec, h) == [f \in DOMAIN rec |-> IF f \in VectorFields THEN h[rec[f]] ELSE rec[f]]
ViewDict(d, h) == [roi \in DOMAIN d.rec |-> ViewRec(d.rec[roi], h)]

RECURSIVE Pow10(_)
Pow10(n) == IF n = 0 THEN 1 ELSE 10 * Pow10(n - 1)

\* The numbers chunk k's files give ROI roi in field FieldOrder[q], voxel j:
\* a different decimal digit position per chunk, so that a sum shows how often
\* each chunk went into it.
ChunkValue(k, roi, q, j) == Pow10(k - 1) * (q + j - 1 + (IF roi = "a" THEN 0 ELSE 1))

\* The dict keys a batch of ROI paths gives: first occurrences, in order.
RECURSIVE KeysOf(_)
KeysOf(rois) ==
  IF rois = <<>> THEN <<>>
  ELSE LET front == KeysOf(SubSeq(rois, 1, Len(rois) - 1))
           x == rois[Len(rois)]
       IN  IF x \in RoiSet(front) THEN front ELSE Append(front, x)

Position(seq, x) == CHOOSE n \in 1..Len(seq) : seq[n] = x
FieldIndex(f) == Position(FieldOrder, f)

\* The contribution process_chunk returns for chunk k and ROI keys `keys`
\* (lines 77-87): per ROI three fresh vectors of brain_size numbers (rows of three
\* different network_maps arrays), allocated from address `base` on, and three
\* scalars held by value.
VectorAddress(base, keys, roi, f) == base + 3 * (Position(keys, roi) - 1) + FieldIndex(f)
NewContribution(k, keys, base) ==
  [keys |-> keys,
   rec  |-> [roi \in RoiSet(keys) |->
               [f \in Fields |->
                  IF f \in VectorFields THEN VectorAddress(base, keys, roi, f)
                  ELSE ChunkValue(k, roi, FieldIndex(f), 1)]]]
NewVectors(k, keys) ==
  [n \in 1..(3 * Len(keys)) |->
     LET roi == keys[((n - 1) \div 3) + 1]
         q   == ((n - 1) % 3) + 1
     IN  [j \in 1..BrainSize |-> ChunkValue(k, roi, q, j)]]

NoCall == [kind |-> "none", dst |-> 0, ok |-> TRUE, pos |-> 0, field |-> 0,
           keys |-> <<>>, arg |-> <<>>, pre |-> <<>>]

ConsInit ==
  /\ heap = <<>>
  /\ contribs = <<>>
  /\ orig = <<>>
  /\ atlas = [t \in Atlases |-> EmptyDict]
  /\ last = NoCall
  /\ hist = [uses    |-> [k \in 1..MaxChunks |-> 0],
             merged  |-> [t \in Atlases |-> [k \in 1..MaxChunks |-> 0]],
             retired |-> [t \in Atlases |-> FALSE],
             tainted |-> FALSE,
             calls   |-> 0]
  /\ DenIdle
  /\ ChunkIdle
  /\ RaceIdle

\* process_chunk returns the contribution of the next chunk for a batch of ROIs.
ProcessChunkReturns(maxChunks) ==
  /\ Len(contribs) < maxChunks
  /\ \E rois \in RoiBatches :
       LET k == Len(contribs) + 1
           c == NewContribution(k, KeysOf(rois), Len(heap))
           h == heap \o NewVectors(k, KeysOf(rois))
       IN  /\ heap' = h
           /\ contribs' = Append(contribs, c)
           /\ orig' = Append(orig, ViewDict(c, h))
  /\ UNCHANGED <<atlas, last, hist, denVars, chunkVars, raceVars>>

\* The bookkeeping common to every consolidate(arg, atlas[t]) call.
Call(kind, arg, t) ==
  LET r == consolidate(arg, atlas[t], heap)
  IN  /\ heap' = r.heap
      /\ atlas' = [atlas EXCEPT ![t] = r.atlas]
      /\ last' = [kind |-> kind, dst |-> t, ok |-> r.ok, pos |-> r.pos, field |-> r.field,
                  keys |-> arg.keys, arg |-> ViewDict(arg, heap),
                  pre |-> ViewDict(atlas[t], heap)]

\* consolidate(contribs[k], atlas[t])
Consolidate(T, maxCalls) ==
  /\ hist.calls < maxCalls
  /\ \E k \in 1..Len(contribs), t \in T :
       /\ ~hist.retired[t]
       /\ Call("contribution", contribs[k], t)
       /\ hist' = [hist EXCEPT !.uses[k] = @ + 1,
                               !.merged[t][k] = @ + 1,
                               !.calls = @ + 1]
  /\ UNCHANGED <<contribs, orig, denVars, chunkVars, raceVars>>

\* consolidate(atlas[s], atlas[t]): the atlas of one group of chunks is merged
\* into another atlas. The orchestrator then drops atlas[s] (retired): it is
\* neither merged into nor merged from again.
ConsolidateAtlas ==
  /\ hist.calls < MaxCalls
  /\ \E s \in Atlases, t \in Atlases :
       /\ s # t
       /\ ~hist.retired[s] /\ ~hist.retired[t]
       /\ Call("atlas", atlas[s], t)
       /\ hist' = [hist EXCEPT !.merged[t] = [k \in 1..MaxChunks |-> @[k] + hist.merged[s][k]],
                               !.retired[s] = TRUE,
                               !.calls = @ + 1]
  /\ UNCHANGED <<contribs, orig, denVars, chunkVars, raceVars>>

\* A contribution like contribs[k], but whose record of ROI roi lacks field f.
Without(c, roi, f) ==
  [c EXCEPT !.rec[roi] = [g \in (DOMAIN c.rec[roi]) \ {f} |-> c.rec[roi][g]]]

\* consolidate called with a contribution that breaks the six-field contract.
ConsolidateDefective(T, maxCalls) ==
  /\ hist.calls < maxCalls
  /\ \E k \in 1..Len(contribs), t \in T, f \in Fields :
       \E roi \in RoiSet(contribs[k].keys) :
         /\ Call("defective", Without(contribs[k], roi, f), t)
         /\ hist' = [hist EXCEPT !.tainted = TRUE, !.calls = @ + 1]
  /\ UNCHANGED <<contribs, orig, denVars, chunkVars, raceVars>>

ConsNext ==
  \/ ProcessChunkReturns(MaxChunks)
  \/ Consolidate(Atlases, MaxCalls)
  \/ ConsolidateAtlas

SpecConsolidate == ConsInit /\ [][ConsNext]_vars

\* The runs in which some contribution breaks the contract: one atlas.
FailNext ==
  \/ ProcessChunkReturns(MaxFailChunks)
  \/ Consolidate({1}, MaxFailCalls)
  \/ ConsolidateDefective({1}, MaxFailCalls)

SpecFailure == ConsInit /\ [][FailNext]_vars

\* ------------------------------------- two consolidate calls, unsynchronised
\* consolidate takes no lock (lines 225-241). Call i merges contribs[i] into the
\* shared atlas; the calls interleave between the membership test, the read of
\* the left operand, the addition and the write of every augmented assignment.
Callers == {1, 2}
KeySeqs == { KeysOf(rois) : rois \in RoiBatches }
\* The ROI both calls carry. Call 2 carries it alone, call 1 possibly with
\* another ROI, before or after it; the atlas holds at most one entry already.
SharedRoi == "a"
RaceKeys1 == { ks \in KeySeqs : SharedRoi \in RoiSet(ks) }
RaceKeys2 == { <<SharedRoi>> }
RaceKeys0 == { ks \in KeySeqs \cup {<<>>} : Len(ks) <= 1 }

\* Mutant of Augment: the operand is stored, nothing is added.
Augment_assigns(f, old, operand, h) == IF f \in VectorFields THEN h[operand] ELSE operand

\* The value atlas[roi][f] + contribution[roi][f] of an augmented assignment:
\* for a vector field, read from the storage of the two operands.
Augment(f, old, operand, h) ==
  IF f \in VectorFields THEN VecAdd(h[old], h[operand]) ELSE old + operand

Ready == [pc |-> "ready", p |-> 1, q |-> 1, rec |-> 0, old |-> 0, val |-> 0]

RaceInit ==
  /\ \E keys0 \in RaceKeys0, keys1 \in RaceKeys1, keys2 \in RaceKeys2 :
       LET c1 == NewContribution(1, keys1, 0)
           c2 == NewContribution(2, keys2, 3 * Len(keys1))
           \* a contribution consolidated into the atlas, alone, before the two calls
           c0 == NewContribution(3, keys0, 3 * (Len(keys1) + Len(keys2)))
           h  == NewVectors(1, keys1) \o NewVectors(2, keys2) \o NewVectors(3, keys0)
       IN  /\ heap = h
           /\ contribs = <<c1, c2, c0>>
           /\ orig = <<ViewDict(c1, h), ViewDict(c2, h), ViewDict(c0, h)>>
           /\ r_recs = [n \in 1..Len(keys0) |-> NewRecord(c0.rec[keys0[n]]).rec]
           /\ r_atlas = [keys |-> keys0, rec |-> [roi \in RoiSet(keys0) |-> Position(keys0, roi)]]
  /\ thr = [i \in Callers |-> Ready]
  /\ r_overlap = FALSE
  /\ Idle(atlas) /\ Idle(last) /\ Idle(hist)
  /\ DenIdle
  /\ ChunkIdle

RaceFrame == <<contribs, orig, atlas, last, hist, denVars, chunkVars>>
Running(i) == thr[i].pc \notin {"ready", "done"}
RoiAt(i) == contribs[i].keys[thr[i].p]
FieldAt(i) == FieldOrder[thr[i].q]

\* The call goes on to its next ROI, or returns.
NextRoi(i) ==
  IF thr[i].p < Len(contribs[i].keys)
  THEN [Ready EXCEPT !.pc = "test", !.p = thr[i].p + 1]
  ELSE [Ready EXCEPT !.pc = "done"]

\* consolidate(contribs[i], atlas) is entered.
Start(i) ==
  /\ thr[i].pc = "ready"
  /\ thr' = [thr EXCEPT ![i].pc = "test"]
  /\ r_overlap' = (r_overlap \/ \E j \in Callers \ {i} : Running(j))
  /\ UNCHANGED <<heap, r_recs, r_atlas, RaceFrame>>

\* if roi in atlas   (line 226)
Test(i) ==
  /\ thr[i].pc = "test"
  /\ thr' = [thr EXCEPT ![i].pc = IF DictHas(r_atlas, RoiAt(i)) THEN "load" ELSE "insert",
                        ![i].q = 1]
  /\ UNCHANGED <<heap, r_recs, r_atlas, r_overlap, RaceFrame>>

\* atlas[roi][f] += ... : the record atlas[roi] and its field f are read.
Load(i) ==
  /\ thr[i].pc = "load"
  /\ LET rec == r_atlas.rec[RoiAt(i)]
     IN  thr' = [thr EXCEPT ![i].pc = "add", ![i].rec = rec,
                            ![i].old = r_recs[rec][FieldAt(i)]]
  /\ UNCHANGED <<heap, r_recs, r_atlas, r_overlap, RaceFrame>>

\* ... the right operand is read and the sum computed.
Add(i) ==
  /\ thr[i].pc = "add"
  /\ thr' = [thr EXCEPT ![i].pc = "store",
                        ![i].val = Augment(FieldAt(i), thr[i].old,
                                           contribs[i].rec[RoiAt(i)][FieldAt(i)], heap)]
  /\ UNCHANGED <<heap, r_recs, r_atlas, r_overlap, RaceFrame>>

\* ... and the result is written: a scalar into the record read, a vector into
\* the storage of the left operand (the record keeps the same vector).
Store(i) ==
  /\ thr[i].pc = "store"
  /\ IF FieldAt(i) \in VectorFields
     THEN /\ heap' = [heap EXCEPT ![thr[i].old] = thr[i].val]
          /\ UNCHANGED r_recs
     ELSE /\ r_recs' = [r_recs EXCEPT ![thr[i].rec][FieldAt(i)] = thr[i].val]
          /\ UNCHANGED heap
  /\ thr' = [thr EXCEPT ![i] = IF thr[i].q < Len(FieldOrder)
                               THEN [Ready EXCEPT !.pc = "load", !.p = thr[i].p,
                                                  !.q = thr[i].q + 1]
                               ELSE NextRoi(i)]
  /\ UNCHANGED <<r_atlas, r_overlap, RaceFrame>>

\* atlas[roi] = {...}   (lines 234-241)
Insert(i) ==
  /\ thr[i].pc = "insert"
  /\ r_recs' = Append(r_recs, NewRecord(contribs[i].rec[RoiAt(i)]).rec)
  /\ r_atlas' = DictSet(r_atlas, RoiAt(i), Len(r_recs) + 1)
  /\ thr' = [thr EXCEPT ![i] = NextRoi(i)]
  /\ UNCHANGED <<heap, r_overlap, RaceFrame>>

RaceNext ==
  \/ \E i \in Callers : Start(i)
  \/ \E i \in Callers : Test(i)
  \/ \E i \in Callers : Load(i)
  \/ \E i \in Callers : Add(i)
  \/ \E i \in Callers : Store(i)
  \/ \E i \in Callers : Insert(i)

SpecRace == RaceInit /\ [][RaceNext]_vars

\* What the shared atlas holds, and the field-wise sum of everything given to it.
RaceView == [roi \in DOMAIN r_atlas.rec |-> ViewRec(r_recs[r_atlas.rec[roi]], heap)]
RaceSources(roi) == { k \in 1..Len(orig) : roi \in DOMAIN orig[k] }
RaceExpected ==
  [roi \in { r \in Rois : RaceSources(r) # {} } |->
     [f \in Fields |->
        LET Ks == RaceSources(roi)
        IN  IF f \in VectorFields
            THEN [j \in 1..BrainSize |-> SumOver(Ks, [k \in Ks |-> orig[k][roi][f][j]])]
            ELSE SumOver(Ks, [k \in Ks |-> orig[k][roi][f]])]]
BothDone == \A i \in Callers : thr[i].pc = "done"

\* C9: every serial execution of the two calls leaves the field-wise sum of
\* both contributions (and of what the atlas held) in the atlas; the calls
\* that interleave can lose an update or a first insertion (C9_Witness).
C9_SerialCallsSum ==
  (BothDone /\ ~r_overlap) => RaceView = RaceExpected

\* A lost update: the entry existed, both calls added to it, and the atlas
\* ends with a numerator that holds the first call's addition only.
C9_Witness ==
  /\ BothDone
  /\ r_overlap
  /\ SharedRoi \in DOMAIN orig[3]
  /\ RaceView[SharedRoi] # RaceExpected[SharedRoi]
  /\ RaceView[SharedRoi]["numerator"] =
       orig[3][SharedRoi]["numerator"] + orig[1][SharedRoi]["numerator"]

\* ------------------------------------------------- claims about consolidate
FieldAdd(f, x, y) == IF f \in VectorFields THEN VecAdd(x, y) ELSE x + y

\* The chunks that went into atlas t and hold ROI roi.
ChunksIn(t, roi) ==
  { k \in 1..Len(contribs) : hist.merged[t][k] > 0 /\ roi \in DOMAIN orig[k] }

\* The sum, over the chunks that went into atlas t, of the values each held
\* when process_chunk returned it (each as often as it went in).
ExpectedField(t, roi, f) ==
  LET Ks == ChunksIn(t, roi)
  IN  IF f \in VectorFields
      THEN [j \in 1..BrainSize |->
              SumOver(Ks, [k \in Ks |-> hist.merged[t][k] * orig[k][roi][f][j]])]
      ELSE SumOver(Ks, [k \in Ks |-> hist.merged[t][k] * orig[k][roi][f]])
ExpectedAtlas(t) ==
  [roi \in { r \in Rois : ChunksIn(t, r) # {} } |-> [f \in Fields |-> ExpectedField(t, roi, f)]]

\* Every contribution was consolidated at most once, and none broke the contract.
EachOnce == ~hist.tainted /\ \A k \in 1..MaxChunks : hist.uses[k] <= 1

\* C1: when each contribution record is consolidated once, one at a time in
\* any order into an atlas, or by groups into separate atlases that are then
\* consolidated into one, each atlas holds exactly the ROIs of the contributions
\* that went into it and, per ROI and field, the sum of their values: the
\* result does not depend on the order or on the grouping.
C1_ConsolidateSumsInAnyOrder ==
  EachOnce =>
    \A t \in Atlases :
      ~hist.retired[t] => ViewDict(atlas[t], heap) = ExpectedAtlas(t)

C1_Witness ==
  /\ EachOnce
  /\ Len(contribs) = MaxChunks
  /\ \A k \in 1..MaxChunks : hist.merged[1][k] = 1
  /\ hist.retired[2]
  /\ hist.calls = MaxCalls
  /\ \E roi \in Rois : Cardinality(ChunksIn(1, roi)) >= 2
  /\ ViewDict(atlas[1], heap) = ExpectedAtlas(1)

\* C2: consolidate does not mutate the contribution: every contribution record
\* still holds the values it had when process_chunk returned it.
C2_ContributionsImmutable ==
  \A k \in 1..Len(contribs) : ViewDict(contribs[k], heap) = orig[k]

\* Every field of every ROI added to itself.
Doubled(v) == [roi \in DOMAIN v |-> [f \in Fields |-> FieldAdd(f, v[roi][f], v[roi][f])]]
\* Contribution k went twice into atlas t, and nothing else did.
TwiceInto(k, t) ==
  /\ ~hist.tainted
  /\ hist.uses[k] = 2
  /\ hist.merged[t][k] = 2
  /\ \A k2 \in 1..MaxChunks : k2 # k => hist.merged[t][k2] = 0
  /\ ~hist.retired[t]

\* C6: a contribution consolidated twice into an otherwise empty atlas (and
\* nowhere else) leaves, for each of its ROIs, every field at exactly twice the
\* value the contribution had when process_chunk returned it.
C6_TwiceDoubles ==
  \A k \in 1..Len(contribs), t \in Atlases :
    TwiceInto(k, t) => ViewDict(atlas[t], heap) = Doubled(orig[k])

C6_Witness ==
  \E k \in 1..Len(contribs) :
    /\ TwiceInto(k, 1)
    /\ Len(contribs[k].keys) = 2
    /\ ViewDict(atlas[1], heap) = Doubled(orig[k])
    /\ ViewDict(atlas[1], heap) # orig[k]

\* C8: a contribution whose record of some ROI lacks one of the six fields
\* makes consolidate raise KeyError, whether the ROI is already in the atlas or
\* is seen for the first time, and no atlas entry ever has fewer than six fields.
C8_MissingFieldRaises ==
  /\ last.kind = "defective" => ~last.ok
  /\ last.kind = "contribution" => last.ok
  /\ \A t \in Atlases : \A roi \in DOMAIN atlas[t].rec :
       DOMAIN atlas[t].rec[roi] = Fields

C8_Witness ==
  /\ last.kind = "defective"
  /\ ~last.ok
  /\ last.pos = 2
  /\ last.keys[2] \in DOMAIN last.pre
  /\ last.field = 4

\* C10 as stated: a consolidate call that fails leaves the atlas exactly as it
\* was before the call.
C10_FailureLeavesAtlasUnchanged ==
  (last.kind # "none" /\ ~last.ok) => ViewDict(atlas[last.dst], heap) = last.pre

\* C10 amended: when consolidate fails at ROI bad, field q, the ROIs that
\* precede bad in the contribution are merged (added, or inserted), the fields
\* of an existing entry of bad that precede q in the order avgr, fz, t,
\* network_weight, numerator, denominator are added; nothing else changes: field q
\* and the later fields of bad, a first-seen bad (not inserted), the ROIs that
\* follow bad, and the entries of ROIs not in the contribution.
C10_FailureKeepsPartialMerge ==
  (last.kind # "none" /\ ~last.ok) =>
    LET post == ViewDict(atlas[last.dst], heap)
        pre  == last.pre
        arg  == last.arg
        before == { last.keys[n] : n \in 1..(last.pos - 1) }
        bad  == last.keys[last.pos]
        merged(roi) == IF roi \in DOMAIN pre
                       THEN [f \in Fields |-> FieldAdd(f, pre[roi][f], arg[roi][f])]
                       ELSE arg[roi]
    IN  /\ DOMAIN post = (DOMAIN pre) \cup before
        /\ \A roi \in before : post[roi] = merged(roi)
        /\ bad \in DOMAIN pre =>
             \A f \in Fields :
               post[bad][f] = IF FieldIndex(f) < last.field
                              THEN FieldAdd(f, pre[bad][f], arg[bad][f])
                              ELSE pre[bad][f]
        /\ \A roi \in (DOMAIN pre) \ (before \cup {bad}) : post[roi] = pre[roi]

C10_Witness ==
  /\ last.kind = "defective"
  /\ ~last.ok
  /\ last.pos = 2
  /\ last.field = 3
  /\ last.keys[2] \in DOMAIN last.pre
  /\ ViewDict(atlas[last.dst], heap) # last.pre
====
